---- MODULE Spec2Model ----
(***************************************************************************)
(* Model of script.py: the scrape -> clean -> Kafka -> save pipeline.      *)
(*                                                                         *)
(* A DataFrame is a record [none, columns, rows]; a row is a function from *)
(* column names to cells.  A float cell is <<"num", n>> with n in          *)
(* thousandths (50000123 is 50000.123) or <<"nan", 0>> (a JSON null).      *)
(* Columns that no cleaning step reads for a decision (name, market_cap,   *)
(* total_volume, circulating_supply, last_updated, ...) are left out.      *)
(***************************************************************************)
EXTENDS Integers, Sequences, FiniteSets, TLC

VARIABLES
    pc,             \* position in main() / produce_to_kafka()
    api,            \* what requests.get / raise_for_status / json() yield
    df,             \* main: df
    df_cleaned,     \* main: df_cleaned
    calls,          \* the functions invoked so far, in order
    stdout,         \* the decisive lines printed so far
    producer,       \* the KafkaProducer: "none", "open", "flushed", "closed"
    sent,           \* messages handed to producer.send, in order
    acked,          \* messages whose future.get returned, in order
    success_count,  \* produce_to_kafka: success_count
    kafka_success,  \* main: kafka_success: "unset", then "True" or "False"
    files,          \* files written in the working directory
    failure,        \* produce_to_kafka: the call that raised ("" if none)
    raised          \* exception that left the called function ("" if none)

vars == <<pc, api, df, df_cleaned, calls, stdout, producer, sent, acked,
          success_count, kafka_success, files, failure, raised>>

-----------------------------------------------------------------------------
(* Bounds of the model *)

\* longest response with freely chosen coins
MaxRows == 2

\* longest response used to exercise the data[:30] slice
MaxResp == 32

\* data[:30]
FetchCap == 30

-----------------------------------------------------------------------------
(* Cells *)

Num(n) == <<"num", n>>

NaN == <<"nan", 0>>

IsNaN(x) == x[1] = "nan"

\* dict.get default for the numeric keys, and for the string keys
DefaultNum == Num(0)

DefaultStr == ""

\* str.upper on the symbols of the model
Upper(s) ==
    CASE s = "btc" -> "BTC"
      [] s = "eth" -> "ETH"
      [] OTHER -> s

Abs(n) == IF n < 0 THEN -n ELSE n

\* round to 2 decimals of a value in thousandths, half to even (numpy.round
\* rounds x * 100 to the nearest integer, ties to even)
RoundHalfEven2(n) ==
    LET a == Abs(n)
        q == a \div 10
        r == a % 10
        m == IF r < 5 THEN q
             ELSE IF r > 5 THEN q + 1
             ELSE IF q % 2 = 0 THEN q ELSE q + 1
    IN  IF n < 0 THEN -(m * 10) ELSE m * 10

\* Series.round(2): NaN stays NaN
Round2(x) == IF IsNaN(x) THEN x ELSE Num(RoundHalfEven2(x[2]))

\* elementwise `> 0`: False for NaN
GtZero(x) == ~IsNaN(x) /\ x[2] > 0

-----------------------------------------------------------------------------
(* DataFrames *)

None == [none |-> TRUE]

RawColumns == {"id", "symbol", "current_price", "market_cap_rank"}

\* pd.DataFrame(list of dicts): the columns are the keys of the dicts, and
\* an empty list gives a frame with no columns at all
DataFrame(rows) ==
    [none |-> FALSE,
     columns |-> IF rows = <<>> THEN {} ELSE RawColumns,
     rows |-> rows]

Frame(cols, rows) == [none |-> FALSE, columns |-> cols, rows |-> rows]

\* dict.get(key, default)
Get(coin, key, default) == IF key \in DOMAIN coin THEN coin[key] ELSE default

\* one crypto_list.append({...})
Extract(coin) ==
    [id |-> Get(coin, "id", DefaultStr),
     symbol |-> Get(coin, "symbol", DefaultStr),
     current_price |-> Get(coin, "current_price", DefaultNum),
     market_cap_rank |-> Get(coin, "market_cap_rank", 0)]

Min(a, b) == IF a < b THEN a ELSE b

\* the slice taken from the wrong end
SliceTail(data) == SubSeq(data, Len(data) - Min(FetchCap, Len(data)) + 1, Len(data))

\* data[:30]
Slice(data) == SubSeq(data, 1, Min(FetchCap, Len(data)))

\* the try body of scrape_crypto_data on a parsed JSON list
ScrapeRows(data) == [i \in 1..Len(Slice(data)) |-> Extract(Slice(data)[i])]

\* scrape_crypto_data: None on any exception, else the frame
scrape_crypto_data(a) ==
    IF a.kind = "ok" THEN DataFrame(ScrapeRows(a.body)) ELSE None

-----------------------------------------------------------------------------
(* clean_data *)

RenameCol(c) == IF c = "current_price" THEN "price_usd" ELSE c

OldCol(c) == IF c = "price_usd" THEN "current_price" ELSE c

\* operation 1: df.rename(columns=...); absent columns are ignored
Rename(t) ==
    LET cols == {RenameCol(c) : c \in t.columns}
    IN  Frame(cols, [i \in 1..Len(t.rows) |->
                        [c \in cols |-> t.rows[i][OldCol(c)]]])

\* operation 2: df['symbol'] = df['symbol'].str.upper()
UpperSymbols(t) ==
    Frame(t.columns, [i \in 1..Len(t.rows) |->
                        [t.rows[i] EXCEPT !.symbol = Upper(@)]])

KeepRow(r) == GtZero(r.price_usd)

\* operation 3: df = df[df['price_usd'] > 0]
FilterPrice(t) == Frame(t.columns, SelectSeq(t.rows, KeepRow))

\* operation 4: df[col] = df[col].round(2)
RoundCols(t) ==
    Frame(t.columns, [i \in 1..Len(t.rows) |->
                        [t.rows[i] EXCEPT !.price_usd = Round2(@)]])

\* datetime.now().strftime(...): one value for the whole call
Now == "2026-01-01 00:00:00"

\* operation 5: df['scraped_at'] = ...
Stamp(t) ==
    LET cols == t.columns \cup {"scraped_at"}
    IN  Frame(cols, [i \in 1..Len(t.rows) |->
                        [c \in cols |-> IF c = "scraped_at" THEN Now
                                        ELSE t.rows[i][c]]])

RECURSIVE DropDupRows(_, _)
DropDupRows(rows, seen) ==
    IF rows = <<>> THEN <<>>
    ELSE IF Head(rows).symbol \in seen THEN DropDupRows(Tail(rows), seen)
    ELSE <<Head(rows)>> \o DropDupRows(Tail(rows), seen \cup {Head(rows).symbol})

\* no rows dropped
KeepAllDuplicates(t) == t

\* operation 7: df.drop_duplicates(subset=['symbol'], keep='first')
DropDuplicates(t) == Frame(t.columns, DropDupRows(t.rows, {}))

SortKeyLeq(a, b) == a.market_cap_rank <= b.market_cap_rank

\* the orders sort_values can leave rows S of `rows` in: ascending by the
\* key, rows with equal keys in any order (the default kind, quicksort, is
\* not stable)
RECURSIVE SortFrom(_, _)
SortFrom(rows, S) ==
    IF S = {} THEN {<<>>}
    ELSE UNION {{<<rows[i]>> \o t : t \in SortFrom(rows, S \ {i})} :
                i \in {k \in S : \A j \in S : SortKeyLeq(rows[k], rows[j])}}

\* operation 8: df.sort_values('market_cap_rank').reset_index(drop=True)
SortValues(t) == {Frame(t.columns, r) : r \in SortFrom(t.rows, 1..Len(t.rows))}

\* df['symbol'] on a frame without that column raises KeyError
CleanRaises(t) == "symbol" \notin Rename(t).columns

\* duplicates removed before the price filter instead of after it
CleanStepsDedupFirst(t) ==
    Stamp(RoundCols(FilterPrice(DropDuplicates(UpperSymbols(Rename(t))))))

\* operations 1-7 (operation 6 touches only columns left out of the model)
CleanSteps(t) ==
    DropDuplicates(Stamp(RoundCols(FilterPrice(UpperSymbols(Rename(t))))))

\* the frames clean_data can return
clean_data(t) == SortValues(CleanSteps(t))

-----------------------------------------------------------------------------
(* What the market-data endpoint can answer *)

Symbols == {"btc", "BTC", "eth"}

\* prices that survive `> 0`, and cells that do not
Positive == {Num(4), Num(50000123)}

NotPositive == {NaN, Num(0), Num(-1500)}

Ranks == {1, 2}

\* the entries a response can hold at position i; ids are unique, and an
\* entry may lack the current_price key
CoinsAt(i) ==
    {[id |-> i, symbol |-> s, current_price |-> p, market_cap_rank |-> r] :
        s \in Symbols, p \in Positive, r \in Ranks}
    \cup {[id |-> i, symbol |-> s, current_price |-> p, market_cap_rank |-> 1] :
            s \in Symbols, p \in NotPositive}
    \cup {[id |-> i, symbol |-> s, market_cap_rank |-> 1] : s \in Symbols}

RECURSIVE Bodies(_)
Bodies(n) ==
    IF n = 0 THEN {<<>>}
    ELSE {Append(b, c) : b \in Bodies(n - 1), c \in CoinsAt(n)}

\* a response of n entries with distinct ranks, symbols in a pattern of k
LongBody(n, k) ==
    [i \in 1..n |->
        [id |-> i,
         symbol |-> IF (i + k) % 3 = 0 THEN "btc"
                    ELSE IF (i + k) % 3 = 1 THEN "BTC" ELSE "eth",
         current_price |-> Num(4 + 1000 * ((i + k) % 2)),
         market_cap_rank |-> n + 1 - i]]

\* requests.get raising, raise_for_status raising, response.json() raising,
\* and a JSON body that is not a list (data[:30] raises)
ErrorKinds == {"timeout", "http_error", "bad_json", "not_a_list"}

Errors == {[kind |-> k, body |-> <<>>] : k \in ErrorKinds}

Ok(b) == [kind |-> "ok", body |-> b]

Responses == Errors \cup {Ok(b) : b \in UNION {Bodies(n) : n \in 0..MaxRows}}

LongResponses == Errors \cup {Ok(LongBody(n, k)) : n \in 0..MaxResp, k \in 0..2}

-----------------------------------------------------------------------------
(* main and produce_to_kafka, step by step *)

Start ==
    /\ pc = "main"
    /\ df = None
    /\ df_cleaned = None
    /\ calls = <<>>
    /\ stdout = <<>>
    /\ producer = "none"
    /\ sent = <<>>
    /\ acked = <<>>
    /\ success_count = 0
    /\ kafka_success = "unset"
    /\ files = {}
    /\ failure = ""
    /\ raised = ""

Init == api \in Responses /\ Start

\* df = scrape_crypto_data()
Scrape ==
    /\ pc = "main"
    /\ calls' = Append(calls, "scrape_crypto_data")
    /\ df' = scrape_crypto_data(api)
    /\ stdout' = Append(stdout, IF api.kind = "ok" THEN "Successfully scraped"
                                ELSE "Error during scraping")
    /\ pc' = "scraped"
    /\ UNCHANGED <<api, df_cleaned, producer, sent, acked, success_count,
                   kafka_success, files, failure, raised>>

\* the guard without its len(df) == 0 half
NoDataOnlyNone == df.none

\* df is None or len(df) == 0
NoData == IF df.none THEN TRUE ELSE Len(df.rows) = 0

\* if df is None or len(df) == 0: print(...); return
ExitNoData ==
    /\ pc = "scraped"
    /\ NoData
    /\ stdout' = Append(stdout, "Failed to scrape data. Exiting.")
    /\ pc' = "done"
    /\ UNCHANGED <<api, df, df_cleaned, calls, producer, sent, acked,
                   success_count, kafka_success, files, failure, raised>>

\* a call clean_data(df): raises, or returns one of the frames it can
CallClean ==
    /\ calls' = Append(calls, "clean_data")
    /\ IF CleanRaises(df)
       THEN /\ raised' = "KeyError"
            /\ pc' = "crashed"
            /\ UNCHANGED df_cleaned
       ELSE /\ df_cleaned' \in clean_data(df)
            /\ pc' = "cleaned"
            /\ UNCHANGED raised
    /\ UNCHANGED <<api, df, stdout, producer, sent, acked, success_count,
                   kafka_success, files, failure>>

\* df_cleaned = clean_data(df)
Clean == pc = "scraped" /\ ~NoData /\ CallClean

\* the exception swallowed inside the loop, which then carries on
ThrowContinue(what) ==
    /\ failure' = what
    /\ pc' = "loop"

\* an exception inside the try block: control goes to the except clause
Throw(what) ==
    /\ failure' = what
    /\ pc' = "except"

\* producer = KafkaProducer(...)
Connect ==
    /\ pc = "cleaned"
    /\ calls' = Append(calls, "produce_to_kafka")
    /\ \/ /\ producer' = "open"
          /\ pc' = "loop"
          /\ UNCHANGED failure
       \/ /\ Throw("connect")
          /\ UNCHANGED producer
    /\ UNCHANGED <<api, df, df_cleaned, stdout, sent, acked, success_count,
                   kafka_success, files, raised>>

\* the rows df.iterrows() has not yielded yet
MoreRows == Len(sent) < Len(df_cleaned.rows)

\* future = producer.send(KAFKA_TOPIC, value=message)
Send ==
    /\ pc = "loop"
    /\ MoreRows
    /\ \/ /\ sent' = Append(sent, df_cleaned.rows[Len(sent) + 1])
          /\ pc' = "wait"
          /\ UNCHANGED failure
       \/ /\ Throw("send")
          /\ UNCHANGED sent
    /\ UNCHANGED <<api, df, df_cleaned, calls, stdout, producer, acked,
                   success_count, kafka_success, files, raised>>

\* if success_count <= 3: print(...)
EchoLimit == 3

\* record_metadata = future.get(timeout=10); success_count += 1
Ack ==
    /\ pc = "wait"
    /\ \/ /\ acked' = Append(acked, sent[Len(sent)])
          /\ success_count' = success_count + 1
          /\ stdout' = IF success_count + 1 <= EchoLimit
                       THEN Append(stdout, "Sent message")
                       ELSE stdout
          /\ pc' = "loop"
          /\ UNCHANGED failure
       \/ /\ Throw("ack")
          /\ UNCHANGED <<acked, success_count, stdout>>
    /\ UNCHANGED <<api, df, df_cleaned, calls, producer, sent,
                   kafka_success, files, raised>>

\* producer.flush()
Flush ==
    /\ pc = "loop"
    /\ ~MoreRows
    /\ \/ /\ producer' = "flushed"
          /\ pc' = "close"
          /\ UNCHANGED failure
       \/ /\ Throw("flush")
          /\ UNCHANGED producer
    /\ UNCHANGED <<api, df, df_cleaned, calls, stdout, sent, acked,
                   success_count, kafka_success, files, raised>>

\* producer.close(); print(...); return True
Close ==
    /\ pc = "close"
    /\ \/ /\ producer' = "closed"
          /\ kafka_success' = "True"
          /\ stdout' = Append(stdout, "Successfully sent")
          /\ pc' = "returned"
          /\ UNCHANGED failure
       \/ /\ Throw("close")
          /\ UNCHANGED <<producer, kafka_success, stdout>>
    /\ UNCHANGED <<api, df, df_cleaned, calls, sent, acked, success_count,
                   files, raised>>

\* no except clause: the exception leaves produce_to_kafka and main
ExceptReraises ==
    /\ pc = "except"
    /\ raised' = "KafkaError"
    /\ pc' = "crashed"
    /\ UNCHANGED <<api, df, df_cleaned, calls, stdout, producer, sent, acked,
                   success_count, kafka_success, files, failure>>

\* except Exception as e: print(...); return False
Except ==
    /\ pc = "except"
    /\ stdout' = Append(stdout, "Error producing to Kafka")
    /\ kafka_success' = "False"
    /\ pc' = "returned"
    /\ UNCHANGED <<api, df, df_cleaned, calls, producer, sent, acked,
                   success_count, files, failure, raised>>

\* save_dataset(df_cleaned, format): writes the file, or the write raises
\* and the exception leaves main
Save(format, filename, next) ==
    /\ calls' = Append(calls, format)
    /\ \/ /\ files' = files \cup {filename}
          /\ stdout' = Append(stdout, filename)
          /\ pc' = next
          /\ UNCHANGED raised
       \/ /\ raised' = "OSError"
          /\ pc' = "crashed"
          /\ UNCHANGED <<files, stdout>>
    /\ UNCHANGED <<api, df, df_cleaned, producer, sent, acked, success_count,
                   kafka_success, failure>>

\* save_dataset(df_cleaned, format='csv')
SaveCsv == pc = "returned" /\ Save("save_dataset:csv", "cleaned_data.csv", "csv_saved")

\* save_dataset(df_cleaned, format='json')
SaveJson == pc = "csv_saved" /\ Save("save_dataset:json", "cleaned_data.json", "json_saved")

\* the closing prints of main
Summary ==
    /\ pc = "json_saved"
    /\ stdout' = Append(stdout, IF kafka_success = "True"
                                THEN "Pipeline completed successfully!"
                                ELSE "Pipeline completed with warnings")
    /\ pc' = "done"
    /\ UNCHANGED <<api, df, df_cleaned, calls, producer, sent, acked,
                   success_count, kafka_success, files, failure, raised>>

Next ==
    \/ Scrape
    \/ ExitNoData
    \/ Clean
    \/ Connect
    \/ Send
    \/ Ack
    \/ Flush
    \/ Close
    \/ Except
    \/ SaveCsv
    \/ SaveJson
    \/ Summary

Spec == Init /\ [][Next]_vars

-----------------------------------------------------------------------------
(* The functions called one after another on whatever the fetch returned,  *)
(* without main's `len(df) == 0` guard                                     *)

\* clean_data(df) on any frame scrape_crypto_data returned
CleanAny == pc = "scraped" /\ ~df.none /\ CallClean

NextFn ==
    \/ Scrape
    \/ CleanAny
    \/ Connect
    \/ Send
    \/ Ack
    \/ Flush
    \/ Close
    \/ Except

SpecFn == Init /\ [][NextFn]_vars

(* scrape_crypto_data alone, on responses longer than the slice *)

InitScrape == api \in LongResponses /\ Start

NextScrape == Scrape

SpecScrape == InitScrape /\ [][NextScrape]_vars

-----------------------------------------------------------------------------
(* Properties *)

Last(q) == q[Len(q)]

Range(q) == {q[i] : i \in 1..Len(q)}

IsPrefix(p, q) == Len(p) <= Len(q) /\ \A i \in 1..Len(p) : p[i] = q[i]

\* the fetch failed, or the endpoint answered with an empty list
FetchFailedOrEmpty == IF api.kind = "ok" THEN Len(api.body) = 0 ELSE TRUE

\* main has ended: it returned, or an exception left it
Terminated == pc \in {"done", "crashed"}

\* C1: after a failed or empty fetch main prints the failure message and
\* ends; clean_data, produce_to_kafka and save_dataset are never invoked
C1_NoWorkAfterFailedFetch ==
    (FetchFailedOrEmpty /\ pc # "main") =>
        /\ calls = <<"scrape_crypto_data">>
        /\ pc \in {"scraped", "done"}
        /\ pc = "scraped" => ENABLED ExitNoData
        /\ pc = "done" => Last(stdout) = "Failed to scrape data. Exiting."
        /\ df_cleaned.none
        /\ producer = "none" /\ sent = <<>> /\ files = {}

C1_Witness ==
    /\ api.kind = "timeout"
    /\ pc = "done"
    /\ Last(stdout) = "Failed to scrape data. Exiting."

\* C2 as stated: once main has ended after a non-empty fetch and a completed
\* cleaning, save_dataset has been invoked for csv and for json, in that
\* order, right after produce_to_kafka
C2_BothSavesAlways ==
    (Terminated /\ ~df_cleaned.none) =>
        calls = <<"scrape_crypto_data", "clean_data", "produce_to_kafka",
                  "save_dataset:csv", "save_dataset:json">>

\* C2 amended: whatever produce_to_kafka returned, its return is followed by
\* the csv save, and the json save follows unless the csv save itself raised
C2_SavesFollowPublish ==
    /\ pc = "returned" => (kafka_success \in {"True", "False"} /\ ENABLED SaveCsv)
    /\ pc = "csv_saved" => ENABLED SaveJson
    /\ (Terminated /\ ~df_cleaned.none) =>
        /\ IsPrefix(<<"scrape_crypto_data", "clean_data", "produce_to_kafka",
                      "save_dataset:csv">>, calls)
        /\ "cleaned_data.csv" \in files =>
              calls = <<"scrape_crypto_data", "clean_data", "produce_to_kafka",
                        "save_dataset:csv", "save_dataset:json">>
        /\ "cleaned_data.csv" \notin files => raised = "OSError"

C2_Witness ==
    /\ pc = "done"
    /\ kafka_success = "False"
    /\ failure = "send"
    /\ files = {"cleaned_data.csv", "cleaned_data.json"}

\* C3: no exception leaves produce_to_kafka; it returns False when any call
\* in it raised, and True exactly when the producer was created, every row
\* was sent and acknowledged, and flush and close completed
C3_ReturnValue ==
    /\ pc = "crashed" => Last(calls) # "produce_to_kafka"
    /\ pc = "except" => ENABLED Except
    /\ pc = "returned" =>
        /\ kafka_success \in {"True", "False"}
        /\ raised = ""
        /\ failure # "" => kafka_success = "False"
        /\ kafka_success = "True" <=>
              /\ producer = "closed"
              /\ sent = df_cleaned.rows
              /\ acked = df_cleaned.rows

C3_Witness ==
    /\ pc = "returned"
    /\ kafka_success = "False"
    /\ failure = "ack"
    /\ Len(acked) >= 1

\* C4 as stated: a producer that was opened has been flushed and closed
\* when produce_to_kafka returns, on the True and on the False return
C4_ProducerClosedOnReturn ==
    (pc = "returned" /\ producer # "none") => producer = "closed"

\* C5: the frame clean_data returns has no two rows with the same symbol
\* and its rows are in non-decreasing market_cap_rank order
C5_UniqueAndSorted ==
    ~df_cleaned.none =>
        LET r == df_cleaned.rows
        IN  /\ \A i, j \in 1..Len(r) : i # j => r[i].symbol # r[j].symbol
            /\ \A i \in 1..Len(r) - 1 :
                  r[i].market_cap_rank <= r[i + 1].market_cap_rank

\* duplicates by upper-cased symbol went in, and the later row has the
\* better rank
C5_Witness ==
    /\ ~df_cleaned.none
    /\ Len(df.rows) = 2
    /\ Len(df_cleaned.rows) = 1
    /\ df.rows[1].symbol = "btc" /\ df.rows[2].symbol = "BTC"
    /\ GtZero(df.rows[1].current_price) /\ GtZero(df.rows[2].current_price)
    /\ df.rows[1].market_cap_rank > df.rows[2].market_cap_rank

\* C6 as stated: every row of the frame clean_data returns has
\* price_usd > 0
C6_PricesPositive ==
    ~df_cleaned.none =>
        \A i \in 1..Len(df_cleaned.rows) : GtZero(df_cleaned.rows[i].price_usd)

\* C7: for a JSON list of n >= 1 entries scrape_crypto_data returns a frame
\* of min(30, n) rows, the first min(30, n) entries in response order
C7_FirstThirty ==
    (pc = "scraped" /\ api.kind = "ok" /\ Len(api.body) >= 1) =>
        LET n == Len(api.body)
            m == IF n <= FetchCap THEN n ELSE FetchCap
        IN  /\ ~df.none
            /\ Len(df.rows) = m
            /\ \A i \in 1..m :
                  /\ df.rows[i].id = api.body[i].id
                  /\ df.rows[i].symbol = api.body[i].symbol
                  /\ df.rows[i].current_price = api.body[i].current_price
                  /\ df.rows[i].market_cap_rank = api.body[i].market_cap_rank

C7_Witness ==
    /\ pc = "scraped"
    /\ api.kind = "ok"
    /\ Len(api.body) > FetchCap
    /\ Len(df.rows) = FetchCap

\* C8 as stated: clean_data on the frame made from an empty response does
\* not fail and returns a frame of zero rows, and produce_to_kafka then
\* sends nothing
C8_EmptyTableCleans ==
    (api.kind = "ok" /\ api.body = <<>> /\ "clean_data" \in Range(calls)) =>
        /\ raised = ""
        /\ pc # "crashed"
        /\ ~df_cleaned.none
        /\ df_cleaned.rows = <<>>
        /\ sent = <<>>

\* the rows of the input that have a positive price and are the first such
\* row with their upper-cased symbol
FirstPositive(rows) ==
    {i \in 1..Len(rows) :
        /\ GtZero(rows[i].current_price)
        /\ \A j \in 1..(i - 1) :
              GtZero(rows[j].current_price) =>
                  Upper(rows[j].symbol) # Upper(rows[i].symbol)}

\* C9: clean_data returns exactly the first positive-priced row of every
\* upper-cased symbol, the symbol upper-cased, by ascending market_cap_rank;
\* btc at 50000.123 followed by BTC at 0 gives the one row BTC at 50000.12
C9_FirstPositivePerSymbol ==
    ~df_cleaned.none =>
        LET in == df.rows
            out == df_cleaned.rows
            E == FirstPositive(in)
        IN  /\ Len(out) = Cardinality(E)
            /\ {<<out[i].id, out[i].symbol, out[i].market_cap_rank>> :
                    i \in 1..Len(out)}
               = {<<in[i].id, Upper(in[i].symbol), in[i].market_cap_rank>> :
                    i \in E}
            /\ \A i \in 1..Len(out) - 1 :
                  out[i].market_cap_rank <= out[i + 1].market_cap_rank
            /\ ( /\ Len(in) = 2
                 /\ in[1].symbol = "btc" /\ in[1].current_price = Num(50000123)
                 /\ in[2].symbol = "BTC" /\ in[2].current_price = Num(0) )
               => ( /\ Len(out) = 1
                    /\ out[1].symbol = "BTC"
                    /\ out[1].price_usd = Num(50000120) )

\* a row with price 0 comes first and does not shadow the positive-priced
\* row of the same symbol behind it
C9_Witness ==
    /\ ~df_cleaned.none
    /\ Len(df.rows) = 2
    /\ df.rows[1].symbol = "BTC" /\ df.rows[1].current_price = Num(0)
    /\ df.rows[2].symbol = "btc" /\ df.rows[2].current_price = Num(50000123)
    /\ Len(df_cleaned.rows) = 1
    /\ df_cleaned.rows[1].symbol = "BTC"
    /\ df_cleaned.rows[1].id = 2

\* what holds of the messages in every state of produce_to_kafka
SendState ==
    /\ success_count = Len(acked)
    /\ IsPrefix(acked, sent)
    /\ Len(sent) - Len(acked) \in {0, 1}
    /\ Len(sent) > Len(acked) => (pc = "wait" \/ failure = "ack")
    /\ ~df_cleaned.none => IsPrefix(sent, df_cleaned.rows)
    /\ df_cleaned.none => sent = <<>>

\* a step sends at most the next row, and none once a call has raised
SendStep ==
    /\ sent' # sent =>
          /\ failure = ""
          /\ Len(acked) = Len(sent)
          /\ sent' = Append(sent, df_cleaned.rows[Len(sent) + 1])
    /\ acked' # acked => (failure = "" /\ acked' = Append(acked, Last(sent)))

\* C10: rows are sent one at a time in table order, each only after the
\* acknowledgment of the one before; after a failed send or acknowledgment
\* nothing more is sent; the acknowledged messages are a prefix of the
\* table and success_count is the length of that prefix
C10_OrderedPrefix == [](SendState) /\ [][SendStep]_vars

C10_Witness ==
    /\ pc = "returned"
    /\ failure = "ack"
    /\ Len(df_cleaned.rows) = 2
    /\ Len(sent) = 2
    /\ Len(acked) = 1
    /\ success_count = 1

====
